---- MODULE Spec2Model ----
(***************************************************************************)
(* Permission middleware of api/middleware/check-permission.js.            *)
(*                                                                         *)
(* Two specifications share the definitions of the evaluator:              *)
(*   SpecEval  one call of checkUserPermissions on inputs drawn from       *)
(*             bounded sets (the evaluator as a pure function);            *)
(*   Spec      NumInv concurrent invocations of the guards produced by     *)
(*             checkPermission / requireAdmin, each suspended only at its  *)
(*             User.findById lookup, interleaved with administrator        *)
(*             updates of the user store.                                  *)
(*                                                                         *)
(* JavaScript values: a missing property is the value undefined, arrays    *)
(* are sequences, a value that may or may not be an array is a record      *)
(* [kind, items, str].  A function that may throw returns "throw" next to  *)
(* "true" and "false".                                                     *)
(***************************************************************************)
EXTENDS Integers, Sequences, FiniteSets, TLC

\* ------------------------------------------------------------------ bounds
\* longest array drawn for requiredPermissions and for user.permissions
MaxLen == 2
\* number of concurrent guard invocations
NumInv == 2

\* -------------------------------------------------------- JavaScript values
undefined == "<undefined>"
null == "<null>"

\* ToBoolean on the string-like values of the model
Truthy(v) == v \notin {undefined, null, ""}

\* a || b
Or(a, b) == IF Truthy(a) THEN a ELSE b

\* Array.prototype.includes
includes(arr, x) == \E k \in 1..Len(arr) : arr[k] = x

\* a value that is an array, and values that are not
Arr(s) == [kind |-> "array", items |-> s, str |-> ""]
Str(s) == [kind |-> "string", items |-> <<>>, str |-> s]
NotArr(k) == [kind |-> k, items |-> <<>>, str |-> ""]

\* Array.isArray, and ToBoolean of such a value (a non-empty string, an
\* object and an array are truthy)
isArray(v) == v.kind = "array"
TruthyValue(v) == v.kind \notin {"undefined", "null"}

\* ObjectId.prototype.toString of the store's document ids
toString(id) == IF id = 1 THEN "id1" ELSE IF id = 2 THEN "id2" ELSE "id0"

\* ------------------------------------------------------------ static data
PermissionCatalog ==
  [ READ_OWN |-> "read:own", UPDATE_OWN |-> "update:own", DELETE_OWN |-> "delete:own",
    READ_PRODUCTS |-> "read:products", CREATE_PRODUCTS |-> "create:products",
    UPDATE_PRODUCTS |-> "update:products", DELETE_PRODUCTS |-> "delete:products",
    READ_ORDERS |-> "read:orders", CREATE_ORDERS |-> "create:orders",
    UPDATE_ORDERS |-> "update:orders", DELETE_ORDERS |-> "delete:orders",
    READ_ALL |-> "read:all", CREATE_ALL |-> "create:all",
    UPDATE_ALL |-> "update:all", DELETE_ALL |-> "delete:all",
    MANAGE_USERS |-> "manage:users", ASSIGN_ROLES |-> "assign:roles" ]

RolePermissionTable(P) ==
  [ user |-> << P.READ_OWN, P.UPDATE_OWN >>,
    moderator |-> << P.READ_OWN, P.UPDATE_OWN, P.READ_PRODUCTS,
                     P.CREATE_PRODUCTS, P.UPDATE_PRODUCTS >>,
    manager |-> << P.READ_ALL, P.CREATE_ALL, P.UPDATE_ALL,
                   P.READ_ORDERS, P.UPDATE_ORDERS >>,
    admin |-> << "*" >>,
    superadmin |-> << "*" >> ]

ADMIN_ROLES == << "admin", "superadmin" >>

\* Property names every object literal inherits from Object.prototype: a
\* lookup table[name] with one of them finds the inherited member, which is
\* neither undefined nor an array.
ObjectPrototypeKeys ==
  { "constructor", "toString", "valueOf", "hasOwnProperty", "__proto__" }

\* ---------------------------------------------------------------- state
VARIABLES
  PERMISSIONS,        \* the module-level catalog object
  ROLE_PERMISSIONS,   \* the module-level role table object
  call,               \* SpecEval: the one call of checkUserPermissions
  users,              \* Spec: the user store, document id -> document
  guard,              \* Spec: per invocation, the guard's closure
  req,                \* Spec: per invocation, the request object
  res,                \* Spec: per invocation, the response sent
  pc,                 \* Spec: per invocation, start / lookup / settled / done
  settled,            \* Spec: per invocation, what the findById promise settled with
  hasPermission,      \* Spec: per invocation, what checkUserPermissions returned
  events              \* Spec: per invocation, the calls made so far, in order

vars == << PERMISSIONS, ROLE_PERMISSIONS, call, users, guard, req, res, pc,
           settled, hasPermission, events >>

\* ------------------------------------------------------------- evaluator
isAdmin(user) == Truthy(user.role) /\ includes(ADMIN_ROLES, user.role)

\* hasResourceOwnership reading the path parameters in the other order
hasResourceOwnershipIdFirst(user, params) ==
  LET resourceId == Or(params.id, params.userId)
  IN  Truthy(resourceId) /\ resourceId = toString(user._id)

hasResourceOwnership(user, params) ==
  LET resourceId == Or(params.userId, params.id)
  IN  Truthy(resourceId) /\ resourceId = toString(user._id)

hasExplicitPermissions(user, requiredPermissions) ==
  IF ~TruthyValue(user.permissions) \/ ~isArray(user.permissions)
  THEN FALSE
  ELSE \A k \in 1..Len(requiredPermissions) :
         includes(user.permissions.items, requiredPermissions[k])

\* ROLE_PERMISSIONS[user.role]: an own key gives its array, a name inherited
\* from Object.prototype gives that member, anything else gives undefined
RoleEntry(role) ==
  IF role \in DOMAIN ROLE_PERMISSIONS THEN Arr(ROLE_PERMISSIONS[role])
  ELSE IF role \in ObjectPrototypeKeys THEN NotArr("object")
  ELSE NotArr("undefined")

hasRolePermissions(user, requiredPermissions) ==
  IF ~Truthy(user.role) THEN "false"
  ELSE LET entry == RoleEntry(user.role)
           rolePermissions == IF TruthyValue(entry) THEN entry ELSE Arr(<<>>)
       IN  IF ~isArray(rolePermissions) THEN "throw"   \* .includes is not a function
           ELSE IF includes(rolePermissions.items, "*") THEN "true"
           ELSE IF \A k \in 1..Len(requiredPermissions) :
                     includes(rolePermissions.items, requiredPermissions[k])
                THEN "true" ELSE "false"

\* checkUserPermissions with ownership read as a restriction: an
\* owner-allowed "own" request is decided by ownership alone, admins included
checkUserPermissionsOwnerGate(user, requiredPermissions, options) ==
  IF options.allowOwner /\ options.resource = "own"
  THEN IF hasResourceOwnership(user, options.params) THEN "true" ELSE "false"
  ELSE IF isAdmin(user) THEN "true"
  ELSE IF hasExplicitPermissions(user, requiredPermissions) THEN "true"
  ELSE hasRolePermissions(user, requiredPermissions)

checkUserPermissions(user, requiredPermissions, options) ==
  IF isAdmin(user) THEN "true"
  ELSE IF /\ options.allowOwner
          /\ options.resource = "own"
          /\ hasResourceOwnership(user, options.params)
       THEN "true"
  ELSE IF hasExplicitPermissions(user, requiredPermissions) THEN "true"
  ELSE hasRolePermissions(user, requiredPermissions)

\* ------------------------------------------------------------- the guards
NoResponse == [ status |-> 0, message |-> "", required |-> <<>>, resource |-> "" ]

NoContext ==
  [ set |-> FALSE, user |-> [ id |-> 0, email |-> "", role |-> undefined ],
    granted |-> <<>>, resource |-> "" ]

NoUser ==
  [ _id |-> 0, email |-> "", role |-> undefined, permissions |-> NotArr("undefined") ]

NoParams == [ userId |-> undefined, id |-> undefined ]

Request(userData, params) ==
  [ userData |-> userData, params |-> params, permissions |-> NoContext ]

\* res.status(code).json(body); the body's error field (the detail shown in
\* development mode only) is left out
Response(code, message, required, resource) ==
  [ status |-> code, message |-> message, required |-> required, resource |-> resource ]

\* const { resource = null, allowOwner = false } = options
checkPermission(requiredPermissions, options) ==
  [ kind |-> "checkPermission",
    requiredPermissions |-> requiredPermissions,
    resource |-> IF "resource" \in DOMAIN options THEN options.resource ELSE null,
    allowOwner |-> IF "allowOwner" \in DOMAIN options THEN options.allowOwner ELSE FALSE ]

requirePermissions(permissions, options) == checkPermission(permissions, options)

requireOwnershipOrPermissions(permissions) ==
  checkPermission(permissions, [ resource |-> "own", allowOwner |-> TRUE ])

requireAdmin ==
  [ kind |-> "requireAdmin", requiredPermissions |-> NotArr("undefined"),
    resource |-> null, allowOwner |-> FALSE ]

\* validateAuthentication checking only that req.userData is there
validateAuthenticationUserDataOnly(r) ==
  IF ~r.userData.present THEN "Authentication required" ELSE null

validateAuthentication(r) ==
  IF ~r.userData.present \/ ~Truthy(r.userData.userId)
  THEN "Authentication required"
  ELSE null

\* getUserById answering null when the store fails
getUserByIdSwallow(s) ==
  IF s.state = "rejected"
  THEN [ state |-> "fulfilled", found |-> FALSE, user |-> NoUser, error |-> "" ]
  ELSE s

\* the promise of User.findById as getUserById passes it on: a rejection is
\* rethrown as Error("Failed to fetch user: ...")
getUserById(s) ==
  IF s.state = "rejected"
  THEN [ s EXCEPT !.error = "Failed to fetch user: connection lost" ]
  ELSE s

\* normalizePermissions dropping a single identifier instead of wrapping it
normalizePermissionsNoWrap(permissions) ==
  IF isArray(permissions) THEN permissions.items ELSE << >>

normalizePermissions(permissions) ==
  IF isArray(permissions) THEN permissions.items
  ELSE << IF permissions.kind = "string" THEN permissions.str ELSE undefined >>

attachPermissionContext(r, user, permissions, resource) ==
  [ r EXCEPT !.permissions =
      [ set |-> TRUE,
        user |-> [ id |-> user._id, email |-> user.email, role |-> user.role ],
        granted |-> permissions,
        resource |-> Or(resource, "general") ] ]

\* checkPermission's middleware once the caller is resolved: normalize,
\* evaluate, then 403, or attach and next(), or 500 from the catch block.
\* calls lists the calls made on res and next, in order.
checkPermissionDecide(user, g, r) ==
  LET permissions == normalizePermissions(g.requiredPermissions)
      verdict == checkUserPermissions(user, permissions,
                   [ resource |-> g.resource, allowOwner |-> g.allowOwner,
                     params |-> r.params ])
  IN  IF verdict = "throw"
      THEN [ hasPermission |-> verdict,
             res |-> Response(500, "Permission check failed", <<>>, ""),
             req |-> r, calls |-> << "status" >> ]
      ELSE IF verdict = "false"
      THEN [ hasPermission |-> verdict,
             res |-> Response(403, "Insufficient permissions", permissions,
                              Or(g.resource, "general")),
             req |-> r, calls |-> << "status" >> ]
      ELSE [ hasPermission |-> verdict,
             res |-> NoResponse,
             req |-> attachPermissionContext(r, user, permissions, g.resource),
             calls |-> << "attach", "next" >> ]

\* ------------------------------------------------------- input universes
Arrays(S, n) == UNION { [1..k -> S] : k \in 0..n }

\* permission strings drawn for inputs: one the user role grants, one only
\* the manager role grants, and the wildcard, which is not in the catalog
PermUniverse == { "read:own", "read:orders", "*" }

PermissionValues ==
  { NotArr("undefined"), NotArr("null"), Str("read:own") }
    \cup { Arr(s) : s \in Arrays(PermUniverse, MaxLen) }

EvalRoles ==
  { undefined, "", "user", "moderator", "manager", "admin", "superadmin",
    "guest", "constructor" }

EvalUsers ==
  [ _id : {1}, email : {"u1@example.org"}, role : EvalRoles,
    permissions : PermissionValues ]

EvalOptions ==
  [ resource : { null, "own", "products" }, allowOwner : BOOLEAN,
    params : [ userId : { undefined, "id1", "id2" }, id : { undefined, "id1", "id2" } ] ]

\* the request of the resolved caller of SpecEval
EvalRequest(params) == Request([ present |-> TRUE, userId |-> "id1" ], params)

Undecided(r) ==
  [ hasPermission |-> "none", res |-> NoResponse, req |-> r, calls |-> << >> ]

NoCall ==
  [ user |-> NoUser, requiredPermissions |-> <<>>,
    options |-> [ resource |-> null, allowOwner |-> FALSE, params |-> NoParams ],
    returned |-> "idle", decision |-> Undecided(EvalRequest(NoParams)) ]

\* ------------------------------------------------- SpecEval: the evaluator
InitStatic ==
  /\ PERMISSIONS = PermissionCatalog
  /\ ROLE_PERMISSIONS = RolePermissionTable(PermissionCatalog)

InitEval ==
  /\ InitStatic
  /\ \E u \in EvalUsers, R \in Arrays(PermUniverse, MaxLen), o \in EvalOptions :
       call = [ user |-> u, requiredPermissions |-> R, options |-> o,
                returned |-> "pending",
                decision |-> Undecided(EvalRequest(o.params)) ]
  /\ users = << >>
  /\ guard = << >>
  /\ req = << >>
  /\ res = << >>
  /\ pc = << >>
  /\ settled = << >>
  /\ hasPermission = << >>
  /\ events = << >>

\* a guard made by checkPermission decides the request of a resolved caller
Evaluate ==
  /\ call.returned = "pending"
  /\ LET g == checkPermission(Arr(call.requiredPermissions),
                [ resource |-> call.options.resource,
                  allowOwner |-> call.options.allowOwner ])
         d == checkPermissionDecide(call.user, g, call.decision.req)
     IN  call' = [ call EXCEPT !.returned = d.hasPermission, !.decision = d ]
  /\ UNCHANGED << PERMISSIONS, ROLE_PERMISSIONS, users, guard, req, res, pc,
                  settled, hasPermission, events >>

NextEval == Evaluate

SpecEval == InitEval /\ [][NextEval]_vars

\* ------------------------------------------- the evaluator's properties
Elems(arr) == { arr[k] : k \in 1..Len(arr) }

Evaluated == call.returned \notin { "idle", "pending" }

\* the request's target id: the userId path parameter, else the id one
TargetId(params) == IF params.userId # undefined THEN params.userId ELSE params.id

OwnsTarget(user, params) ==
  TargetId(params) # undefined /\ TargetId(params) = toString(user._id)

\* what the role table grants to a role: nothing when the role is no key of it
MappedRoles == DOMAIN RolePermissionTable(PermissionCatalog)

RoleGrants(role) ==
  IF role \in MappedRoles
  THEN Elems(RolePermissionTable(PermissionCatalog)[role])
  ELSE {}

ExplicitGrantsCover(user, R) ==
  user.permissions.kind = "array" /\ Elems(R) \subseteq Elems(user.permissions.items)

RoleGrantsCover(role, R) ==
  "*" \in RoleGrants(role) \/ Elems(R) \subseteq RoleGrants(role)

AllowedBySomeSource(user, R, o) ==
  \/ user.role \in { "admin", "superadmin" }
  \/ o.allowOwner /\ o.resource = "own" /\ OwnsTarget(user, o.params)
  \/ ExplicitGrantsCover(user, R)
  \/ RoleGrantsCover(user.role, R)

\* C1, in full: checkUserPermissions returns allow exactly when the caller is
\* an admin, or owns the target of an owner-allowed "own" request, or holds
\* every required permission explicitly, or the role's entry (empty for a
\* role that is absent or unmapped) holds the wildcard or every required
\* permission; and it returns deny otherwise.
C1_AllowIffSomeSource ==
  Evaluated =>
    call.returned =
      IF AllowedBySomeSource(call.user, call.requiredPermissions, call.options)
      THEN "true" ELSE "false"

\* C1, the "deny otherwise" half: when none of the four sources allows, the
\* evaluator returns deny.
C1_DenyOtherwise ==
  ( /\ Evaluated
    /\ ~AllowedBySomeSource(call.user, call.requiredPermissions, call.options) )
  => call.returned = "false"

\* C1, where it does hold: off the roles that name an inherited member of
\* the table object, and off the empty requirement set of a caller without
\* a role.
C1_AgreesElsewhere ==
  ( /\ Evaluated
    /\ call.user.role \notin ObjectPrototypeKeys
    /\ ~( ~Truthy(call.user.role) /\ call.requiredPermissions = <<>> ) )
  => call.returned =
       IF AllowedBySomeSource(call.user, call.requiredPermissions, call.options)
       THEN "true" ELSE "false"

\* C2: a caller whose role is admin or superadmin is allowed whatever the
\* requirement set, the options, the request and the explicit permissions
\* are, and the checkPermission guard deciding its request calls next().
C2_AdminAlwaysAllowed ==
  ( Evaluated /\ call.user.role \in { "admin", "superadmin" } ) =>
    /\ call.returned = "true"
    /\ call.decision.calls = << "attach", "next" >>
    /\ call.decision.res = NoResponse

\* C2's case: a superadmin that neither owns the target of an owner-allowed
\* request nor holds the required permission explicitly has been let through
C2_Witness ==
  /\ Evaluated
  /\ call.user.role = "superadmin"
  /\ call.options.allowOwner /\ call.options.resource = "own"
  /\ ~OwnsTarget(call.user, call.options.params)
  /\ call.requiredPermissions = << "read:orders", "*" >>
  /\ call.user.permissions = Str("read:own")
  /\ call.decision.calls = << "attach", "next" >>

\* C3: for a caller of role user under { resource: "own", allowOwner: true },
\* a target id equal to the caller's id allows every requirement set, and a
\* target id that is absent or different leaves the verdict of the explicit
\* and role grants alone; without allowOwner, or with another resource
\* label, the target id has no effect on the verdict.
C3_OwnershipBypass ==
  Evaluated =>
    LET u == call.user
        R == call.requiredPermissions
        o == call.options
    IN  /\ ( u.role = "user" /\ o.allowOwner /\ o.resource = "own" ) =>
             IF OwnsTarget(u, o.params)
             THEN call.returned = "true"
             ELSE call.returned =
                    IF ExplicitGrantsCover(u, R) \/ RoleGrantsCover("user", R)
                    THEN "true" ELSE "false"
        /\ ( ~o.allowOwner \/ o.resource # "own" ) =>
             call.returned =
               checkUserPermissions(u, R, [ o EXCEPT !.params = NoParams ])

\* C3's case: a user allowed by ownership alone, holding none of the
\* required permissions
C3_Witness ==
  /\ call.returned = "true"
  /\ call.user.role = "user"
  /\ call.options.allowOwner /\ call.options.resource = "own"
  /\ OwnsTarget(call.user, call.options.params)
  /\ call.requiredPermissions = << "read:orders" >>
  /\ ~ExplicitGrantsCover(call.user, call.requiredPermissions)

UnmappedRole(role) == Truthy(role) /\ role \notin MappedRoles

\* C4, last clause: looking up a role that is no key of the role table never
\* produces an error.
C4_UnmappedRoleNeverErrors ==
  ( Evaluated /\ UnmappedRole(call.user.role) ) => call.returned # "throw"

\* C4, middle clause: a caller with an unmapped role is denied every
\* requirement set unless the admin or the ownership bypass applies.
C4_UnmappedRoleDenied ==
  ( /\ Evaluated
    /\ UnmappedRole(call.user.role)
    /\ ~( /\ call.options.allowOwner
          /\ call.options.resource = "own"
          /\ OwnsTarget(call.user, call.options.params) ) )
  => call.returned = "false"

\* C10: a requirement set that is allowed stays allowed when permissions are
\* taken out of it, the empty requirement set is allowed for every caller with
\* a role or with an array of explicit permissions, and an allowed caller
\* stays allowed when explicit permissions are added to its array.
C10_Monotone ==
  Evaluated =>
    LET u == call.user
        R == call.requiredPermissions
        o == call.options
    IN  /\ call.returned = "true" =>
             \A R1 \in Arrays(Elems(R), Len(R)) :
               checkUserPermissions(u, R1, o) = "true"
        /\ ( Truthy(u.role) \/ u.permissions.kind = "array" ) =>
             checkUserPermissions(u, <<>>, o) = "true"
        /\ ( u.permissions.kind = "array" /\ call.returned = "true" ) =>
             \A p \in PermUniverse :
               checkUserPermissions(
                 [ u EXCEPT !.permissions = Arr(Append(u.permissions.items, p)) ],
                 R, o) = "true"

\* --------------------------------------- Spec: concurrent guard invocations
Inv == 1..NumInv

Pending == [ state |-> "pending", found |-> FALSE, user |-> NoUser, error |-> "" ]

\* ---- the store (models/user): its documents, and the requests sent
Document(role, permissions) ==
  [ _id |-> 1, email |-> "u1@example.org", role |-> role, permissions |-> permissions ]

\* what the document of caller 1 may hold
Documents ==
  { Document("user", NotArr("undefined")),
    Document("user", Arr(<< "read:own", "read:orders" >>)),
    Document("admin", NotArr("undefined")),
    Document("constructor", NotArr("undefined")) }

Identities ==
  { [ present |-> FALSE, userId |-> undefined ],
    [ present |-> TRUE, userId |-> undefined ],
    [ present |-> TRUE, userId |-> "id1" ],
    [ present |-> TRUE, userId |-> "id2" ] }

\* a guard with a request sent through it
Invocations ==
  { << g, Request(u, NoParams) >> :
      g \in { requirePermissions(Str("read:orders"), << >>), requireAdmin },
      u \in Identities }
  \cup
  { << requireOwnershipOrPermissions(Arr(<< "read:own", "read:orders" >>)),
       Request([ present |-> TRUE, userId |-> "id1" ],
               [ userId |-> undefined, id |-> t ]) >> : t \in { "id1", "id2" } }

Init ==
  /\ InitStatic
  /\ call = NoCall
  /\ users \in [ {1} -> Documents ]
  /\ \E f \in [ Inv -> Invocations ] :
       /\ guard = [ i \in Inv |-> f[i][1] ]
       /\ req = [ i \in Inv |-> f[i][2] ]
  /\ res = [ i \in Inv |-> NoResponse ]
  /\ pc = [ i \in Inv |-> "start" ]
  /\ settled = [ i \in Inv |-> Pending ]
  /\ hasPermission = [ i \in Inv |-> "none" ]
  /\ events = [ i \in Inv |-> << >> ]

\* User.findById(userId) on the store as it is now: the document or null
findById(userId) ==
  LET hit == { d \in DOMAIN users : toString(d) = userId }
  IN  IF hit = {}
      THEN [ state |-> "fulfilled", found |-> FALSE, user |-> NoUser, error |-> "" ]
      ELSE [ state |-> "fulfilled", found |-> TRUE,
             user |-> users[CHOOSE d \in hit : TRUE], error |-> "" ]

\* checkPermission's middleware up to its await
checkPermissionInvoke(i) ==
  /\ pc[i] = "start"
  /\ guard[i].kind = "checkPermission"
  /\ LET authError == validateAuthentication(req[i])
     IN  IF authError # null
         THEN /\ res' = [ res EXCEPT ![i] = Response(401, authError, <<>>, "") ]
              /\ events' = [ events EXCEPT ![i] = Append(@, "status") ]
              /\ pc' = [ pc EXCEPT ![i] = "done" ]
         ELSE /\ events' = [ events EXCEPT ![i] = Append(@, "findById") ]
              /\ pc' = [ pc EXCEPT ![i] = "lookup" ]
              /\ UNCHANGED res
  /\ UNCHANGED << PERMISSIONS, ROLE_PERMISSIONS, call, users, guard, req,
                  settled, hasPermission >>

\* requireAdmin's middleware up to the promise's callbacks
requireAdminInvoke(i) ==
  /\ pc[i] = "start"
  /\ guard[i].kind = "requireAdmin"
  /\ IF ~( req[i].userData.present /\ Truthy(req[i].userData.userId) )
     THEN /\ res' = [ res EXCEPT ![i] =
                        Response(401, "Authentication required", <<>>, "") ]
          /\ events' = [ events EXCEPT ![i] = Append(@, "status") ]
          /\ pc' = [ pc EXCEPT ![i] = "done" ]
     ELSE /\ events' = [ events EXCEPT ![i] = Append(@, "findById") ]
          /\ pc' = [ pc EXCEPT ![i] = "lookup" ]
          /\ UNCHANGED res
  /\ UNCHANGED << PERMISSIONS, ROLE_PERMISSIONS, call, users, guard, req,
                  settled, hasPermission >>

\* the store answers the lookup of invocation i
findByIdFulfil(i) ==
  /\ pc[i] = "lookup"
  /\ settled' = [ settled EXCEPT ![i] = findById(req[i].userData.userId) ]
  /\ pc' = [ pc EXCEPT ![i] = "settled" ]
  /\ UNCHANGED << PERMISSIONS, ROLE_PERMISSIONS, call, users, guard, req, res,
                  hasPermission, events >>

\* the store fails the lookup of invocation i
findByIdReject(i) ==
  /\ pc[i] = "lookup"
  /\ settled' = [ settled EXCEPT ![i] =
       [ state |-> "rejected", found |-> FALSE, user |-> NoUser,
         error |-> "connection lost" ] ]
  /\ pc' = [ pc EXCEPT ![i] = "settled" ]
  /\ UNCHANGED << PERMISSIONS, ROLE_PERMISSIONS, call, users, guard, req, res,
                  hasPermission, events >>

\* checkPermission's middleware from the value its await got to its end
checkPermissionContinue(i, got) ==
  /\ pc[i] = "settled"
  /\ guard[i].kind = "checkPermission"
  /\ pc' = [ pc EXCEPT ![i] = "done" ]
  /\ IF got.state = "rejected"
     THEN /\ res' = [ res EXCEPT ![i] =
                        Response(500, "Permission check failed", <<>>, "") ]
          /\ events' = [ events EXCEPT ![i] = Append(@, "status") ]
          /\ UNCHANGED << req, hasPermission >>
     ELSE IF ~got.found
     THEN /\ res' = [ res EXCEPT ![i] = Response(401, "User not found", <<>>, "") ]
          /\ events' = [ events EXCEPT ![i] = Append(@, "status") ]
          /\ UNCHANGED << req, hasPermission >>
     ELSE LET d == checkPermissionDecide(got.user, guard[i], req[i])
          IN  /\ hasPermission' = [ hasPermission EXCEPT ![i] = d.hasPermission ]
              /\ res' = [ res EXCEPT ![i] = d.res ]
              /\ req' = [ req EXCEPT ![i] = d.req ]
              /\ events' = [ events EXCEPT ![i] = @ \o d.calls ]
  /\ UNCHANGED << PERMISSIONS, ROLE_PERMISSIONS, call, users, guard, settled >>

\* the continuation reading the store again instead of the value it awaited
checkPermissionResumeRefetch(i) ==
  checkPermissionContinue(i,
    IF settled[i].state = "fulfilled" THEN findById(req[i].userData.userId)
    ELSE getUserById(settled[i]))

checkPermissionResume(i) == checkPermissionContinue(i, getUserById(settled[i]))

\* requireAdmin's .then / .catch callbacks
requireAdminResume(i) ==
  /\ pc[i] = "settled"
  /\ guard[i].kind = "requireAdmin"
  /\ pc' = [ pc EXCEPT ![i] = "done" ]
  /\ IF settled[i].state = "rejected"
     THEN /\ res' = [ res EXCEPT ![i] =
                        Response(500, "Permission check failed", <<>>, "") ]
          /\ events' = [ events EXCEPT ![i] = Append(@, "status") ]
     ELSE IF ~settled[i].found \/ ~isAdmin(settled[i].user)
     THEN /\ res' = [ res EXCEPT ![i] =
                        Response(403, "Admin access required", <<>>, "") ]
          /\ events' = [ events EXCEPT ![i] = Append(@, "status") ]
     ELSE /\ events' = [ events EXCEPT ![i] = Append(@, "next") ]
          /\ UNCHANGED res
  /\ UNCHANGED << PERMISSIONS, ROLE_PERMISSIONS, call, users, guard, req,
                  settled, hasPermission >>

\* an administrator changes a caller's role and explicit permissions
AdminUpdate(d, doc) ==
  /\ users[d] # doc
  /\ users' = [ users EXCEPT ![d] = doc ]
  /\ UNCHANGED << PERMISSIONS, ROLE_PERMISSIONS, call, guard, req, res, pc,
                  settled, hasPermission, events >>

Next ==
  \/ \E i \in Inv : checkPermissionInvoke(i)
  \/ \E i \in Inv : requireAdminInvoke(i)
  \/ \E i \in Inv : findByIdFulfil(i)
  \/ \E i \in Inv : findByIdReject(i)
  \/ \E i \in Inv : checkPermissionResume(i)
  \/ \E i \in Inv : requireAdminResume(i)
  \/ \E d \in DOMAIN users, doc \in Documents : AdminUpdate(d, doc)

Spec == Init /\ [][Next]_vars

\* ---------------------------------------------- the guards' properties
Done(i) == pc[i] = "done"

IdentityMissing(i) ==
  ~req[i].userData.present \/ req[i].userData.userId \in { undefined, "" }

Made(i, c) == \E k \in 1..Len(events[i]) : events[i][k] = c

\* the terminal signals sent so far: next() and res.status(..).json(..)
Signals(i) == { k \in 1..Len(events[i]) : events[i][k] \in { "next", "status" } }

NotFound(i) == settled[i].state = "fulfilled" /\ ~settled[i].found
Found(i) == settled[i].state = "fulfilled" /\ settled[i].found
LookupFailed(i) == settled[i].state = "rejected"

\* C5: an invocation of either guard whose request has no identity context or
\* no caller identifier ends with 401; it never calls the store lookup,
\* evaluates nothing, attaches no context and never calls next().
C5_NoIdentityNoLookup ==
  \A i \in Inv :
    IdentityMissing(i) =>
      /\ ~Made(i, "findById") /\ ~Made(i, "attach") /\ ~Made(i, "next")
      /\ pc[i] \in { "start", "done" }
      /\ settled[i] = Pending
      /\ hasPermission[i] = "none"
      /\ req[i].permissions = NoContext
      /\ Done(i) => ( res[i].status = 401 /\ events[i] = << "status" >> )

\* C5's case: a request carrying userData without a userId and a request
\* without userData have each been turned away, one by each kind of guard
C5_Witness ==
  \E i, j \in Inv :
    /\ guard[i].kind = "checkPermission" /\ guard[j].kind = "requireAdmin"
    /\ req[i].userData.present /\ IdentityMissing(i) /\ Done(i)
    /\ ~req[j].userData.present /\ Done(j)

\* C6: in either guard, an invocation with an identity whose lookup finds no
\* caller ends with 401, as a missing identity does, never with 403.
C6_NotFoundIsAuthFailure ==
  \A i \in Inv : ( Done(i) /\ NotFound(i) ) => res[i].status = 401

\* C7: in either guard, an invocation whose lookup fails ends with 500, never
\* with 401, 403 or next(), and the request's permission context stays unset.
C7_LookupFailureIsInternalError ==
  \A i \in Inv :
    ( Done(i) /\ LookupFailed(i) ) =>
      /\ res[i].status = 500
      /\ events[i] = << "findById", "status" >>
      /\ req[i].permissions = NoContext

\* C7's case: a failed lookup has ended an invocation of each kind of guard
C7_Witness ==
  \E i, j \in Inv :
    /\ guard[i].kind = "checkPermission" /\ guard[j].kind = "requireAdmin"
    /\ Done(i) /\ LookupFailed(i) /\ res[i].status = 500
    /\ Done(j) /\ LookupFailed(j) /\ res[j].status = 500

\* the requirement set of a guard: the array it was given, or the single
\* identifier it was given as a one-element set
RequiredSet(g) ==
  IF g.requiredPermissions.kind = "array" THEN g.requiredPermissions.items
  ELSE << g.requiredPermissions.str >>

ResourceLabel(g) == IF g.resource \in { null, undefined, "" } THEN "general" ELSE g.resource

\* C8: an invocation of a checkPermission guard sends exactly one of next(),
\* 401, 403, 500, and nothing before it ends.  It calls next() exactly when
\* the caller was resolved and the verdict is allow, after attaching the
\* grant context (caller id, email, role, normalized requirement set,
\* resource label or "general").  A deny verdict gives 403 with the
\* normalized requirement set and the resource label.  Without next() the
\* request's permission context is as it was.
C8_OneSignal ==
  \A i \in Inv :
    guard[i].kind = "checkPermission" =>
      /\ ~Done(i) => ( Signals(i) = {} /\ req[i].permissions = NoContext )
      /\ Done(i) =>
           /\ Cardinality(Signals(i)) = 1
           /\ Made(i, "next") <=> ( Found(i) /\ hasPermission[i] = "true" )
           /\ Made(i, "next") =>
                /\ res[i] = NoResponse
                /\ events[i] = << "findById", "attach", "next" >>
                /\ req[i].permissions =
                     [ set |-> TRUE,
                       user |-> [ id |-> settled[i].user._id,
                                  email |-> settled[i].user.email,
                                  role |-> settled[i].user.role ],
                       granted |-> RequiredSet(guard[i]),
                       resource |-> ResourceLabel(guard[i]) ]
           /\ ( Found(i) /\ hasPermission[i] = "false" ) =>
                /\ res[i].status = 403
                /\ res[i].required = RequiredSet(guard[i])
                /\ res[i].resource = ResourceLabel(guard[i])
           /\ ~Made(i, "next") =>
                /\ res[i].status \in { 401, 403, 500 }
                /\ ~Made(i, "attach")
                /\ req[i].permissions = NoContext

\* C8's case: a guard given a single identifier has answered 403 with the
\* one-element set, and a guard given an array has attached it and gone on
C8_Witness ==
  \E i, j \in Inv :
    /\ Done(i) /\ guard[i].requiredPermissions = Str("read:orders")
    /\ res[i].status = 403 /\ res[i].required = << "read:orders" >>
    /\ res[i].resource = "general"
    /\ Done(j) /\ guard[j].requiredPermissions.kind = "array"
    /\ Made(j, "next") /\ req[j].permissions.resource = "own"

\* what an invocation ends with, from its own request, its own guard and the
\* value its own lookup settled with
OwnOutcome(g, r, s) ==
  IF ~r.userData.present \/ r.userData.userId \in { undefined, "" }
  THEN [ res |-> Response(401, "Authentication required", <<>>, ""),
         permissions |-> NoContext, next |-> FALSE ]
  ELSE IF s.state = "rejected"
  THEN [ res |-> Response(500, "Permission check failed", <<>>, ""),
         permissions |-> NoContext, next |-> FALSE ]
  ELSE IF g.kind = "requireAdmin"
  THEN IF s.found /\ s.user.role \in { "admin", "superadmin" }
       THEN [ res |-> NoResponse, permissions |-> NoContext, next |-> TRUE ]
       ELSE [ res |-> Response(403, "Admin access required", <<>>, ""),
              permissions |-> NoContext, next |-> FALSE ]
  ELSE IF ~s.found
  THEN [ res |-> Response(401, "User not found", <<>>, ""),
         permissions |-> NoContext, next |-> FALSE ]
  ELSE LET d == checkPermissionDecide(s.user, g, [ r EXCEPT !.permissions = NoContext ])
       IN  [ res |-> d.res, permissions |-> d.req.permissions,
             next |-> d.hasPermission = "true" ]

\* the part of the state that belongs to invocation i
Slice(i) == << guard[i], req[i], res[i], pc[i], settled[i], hasPermission[i], events[i] >>

\* C9: under every interleaving of the invocations with each other and with
\* the administrator's updates, what an invocation ends with is a function
\* of its own request, its own guard and the snapshot its own lookup
\* returned; a step of one invocation changes nothing of another nor the
\* store; the role table and the catalog never change.
C9_Independent ==
  /\ [] ( \A i \in Inv :
            Done(i) =>
              [ res |-> res[i], permissions |-> req[i].permissions,
                next |-> Made(i, "next") ]
                = OwnOutcome(guard[i], req[i], settled[i]) )
  /\ [] [ /\ ROLE_PERMISSIONS' = ROLE_PERMISSIONS
          /\ PERMISSIONS' = PERMISSIONS
          /\ \A i \in Inv :
               Slice(i)' # Slice(i) =>
                 /\ users' = users
                 /\ guard'[i] = guard[i]
                 /\ \A j \in Inv \ {i} : Slice(j)' = Slice(j) ]_vars

\* C9's case: an invocation has ended on a snapshot the administrator has
\* changed since, while another invocation was suspended at its lookup
C9_Witness ==
  \E i, j \in Inv :
    /\ i # j
    /\ Done(i) /\ Found(i) /\ settled[i].user # users[1]
    /\ Made(i, "next") /\ users[1].role = "user"
    /\ users[1].permissions = NotArr("undefined")
    /\ guard[i].kind = "checkPermission"
    /\ pc[j] \in { "lookup", "settled" }

====
